---- MODULE Spec2Model ----
(***************************************************************************)
(* Model of app.py, the Streamlit pricing recommendation script.           *)
(*                                                                         *)
(* The script is re-executed top to bottom each time the user picks a SKU. *)
(* A run filters the cached table to the SKU, takes the last row after     *)
(* sort_values("Date") and computes the price recommendation from it.      *)
(*                                                                         *)
(* Numbers are IEEE-like extended rationals [n, d] in lowest terms:        *)
(*   d > 0 finite n/d,  1/0 = +inf,  -1/0 = -inf,  0/0 = NaN.              *)
(* Arithmetic is exact (binary rounding of float64 is not modelled).       *)
(***************************************************************************)
EXTENDS Integers, Sequences, FiniteSets, TLC

VARIABLES df, scalars, sku, row, status, out, first

vars == <<df, scalars, sku, row, status, out, first>>

\* ------------------------------------------------------------------------
\* Bounds of the model
\* ------------------------------------------------------------------------
MaxRows == 2
MaxDate == 2

\* ------------------------------------------------------------------------
\* float64 arithmetic (exact on rationals, with inf and NaN)
\* ------------------------------------------------------------------------
Abs(x) == IF x < 0 THEN -x ELSE x

Sgn(x) == IF x < 0 THEN -1 ELSE IF x > 0 THEN 1 ELSE 0

RECURSIVE GCD(_, _)
GCD(a, b) == IF b = 0 THEN a ELSE GCD(b, a % b)

Norm(n, d) ==
    IF d = 0 THEN [n |-> Sgn(n), d |-> 0]
    ELSE LET g == GCD(Abs(n), Abs(d))
             s == IF d < 0 THEN -1 ELSE 1
         IN  [n |-> (s * n) \div g, d |-> (s * d) \div g]

Q(n, d) == Norm(n, d)

R(n) == [n |-> n, d |-> 1]

NaN == [n |-> 0, d |-> 0]

\* pd.isna on a scalar
isna(x) == x.d = 0 /\ x.n = 0

Neg(a) == [n |-> -a.n, d |-> a.d]

Add(a, b) ==
    IF isna(a) \/ isna(b) THEN NaN
    ELSE IF a.d = 0 /\ b.d = 0 THEN (IF a.n = b.n THEN a ELSE NaN)
    ELSE IF a.d = 0 THEN a
    ELSE IF b.d = 0 THEN b
    ELSE Norm(a.n * b.d + b.n * a.d, a.d * b.d)

Sub(a, b) == Add(a, Neg(b))

Mul(a, b) == Norm(a.n * b.n, a.d * b.d)

Recip(b) == IF b.n < 0 THEN [n |-> -b.d, d |-> -b.n] ELSE [n |-> b.d, d |-> b.n]

\* numpy float64 division: x/0 = +-inf, 0/0 = NaN
Div(a, b) == Mul(a, Recip(b))

\* a > b; every comparison with NaN is False
Gt(a, b) ==
    IF isna(a) \/ isna(b) THEN FALSE
    ELSE IF a.d = 0 /\ b.d = 0 THEN a.n > b.n
    ELSE a.n * b.d > b.n * a.d

Lt(a, b) == Gt(b, a)

\* Python's builtin max(a, b): the first argument unless the second is greater
PyMax(a, b) == IF Gt(b, a) THEN b ELSE a

\* Python truthiness of a float: only zero is falsy (NaN is truthy)
Truthy(x) == ~(x.n = 0 /\ x.d > 0)

\* ------------------------------------------------------------------------
\* The metrics row (a pandas Series). A column that the table does not have
\* is marked NoColumn, a column whose cell is empty holds NaN.
\* ------------------------------------------------------------------------
NoColumn == [n |-> 0, d |-> -1]

NullSKU == "nan"

\* Series.get(key, default): the default only when the key is not in the index
get(r, key, default) == IF r[key] = NoColumn THEN default ELSE r[key]

\* lines 44-49
total_cost(r) ==
    Add(Add(Add(get(r, "Cost", R(0)), get(r, "FBA_Fee", R(0))),
            get(r, "Storage_Fee", R(0))),
        get(r, "Handling_Cost", R(0)))

\* line 51
min_margin(r) == Div(get(r, "Minimum_Acceptable_Margin_pct", R(10)), R(100))

\* line 52
target_margin(r) == Div(get(r, "Target_Gross_Margin_pct", R(25)), R(100))

\* line 54
current_price(r) == get(r, "Current_Price", R(0))

\* line 55
current_margin(r) ==
    IF Truthy(current_price(r))
    THEN Div(Sub(current_price(r), total_cost(r)), current_price(r))
    ELSE R(0)

\* line 57
days_supply(r) == get(r, "days_of_supply", NaN)

\* line 59
competitor_avg(r) == get(r, "Avg_Competitor_Price", NaN)

\* line 63
units90(r) == get(r, "units_shipped_t90", R(0))

\* line 64
returns90(r) == get(r, "returns_t90", R(0))

\* line 65
return_risk_load(r) ==
    Mul(Div(returns90(r), Add(units90(r), R(1))), total_cost(r))

\* line 67
ads_acos(r) == get(r, "acosClicks14d", NaN)

\* line 72
min_price_allowed(r) == Div(total_cost(r), Sub(R(1), min_margin(r)))

\* line 73
target_price(r) == Div(total_cost(r), Sub(R(1), target_margin(r)))

\* lines 78-85
inventory_signal(r) ==
    IF isna(days_supply(r)) THEN R(0)
    ELSE IF Lt(days_supply(r), R(20)) THEN Q(1, 20)
    ELSE IF Gt(days_supply(r), R(90)) THEN Q(-1, 20)
    ELSE R(0)

\* lines 90-93
competitor_target(r) ==
    IF ~isna(competitor_avg(r))
    THEN Add(Mul(Q(7, 10), competitor_avg(r)), Mul(Q(3, 10), current_price(r)))
    ELSE current_price(r)

\* lines 98-105
ads_signal(r) ==
    IF isna(ads_acos(r)) THEN R(0)
    ELSE IF Gt(ads_acos(r), R(40)) THEN Q(1, 20)
    ELSE IF Lt(ads_acos(r), R(20)) THEN Q(-1, 20)
    ELSE R(0)

\* line 110
risk_signal(r) ==
    IF Gt(return_risk_load(r), Mul(Q(1, 5), total_cost(r))) THEN Q(1, 20) ELSE R(0)

\* line 115
base(r) == PyMax(target_price(r), min_price_allowed(r))

\* lines 120-123: inventory, then ads, then risk
apply_signals(b, inv, ads, risk) ==
    Mul(Mul(Mul(b, Add(R(1), inv)), Add(R(1), ads)), Add(R(1), risk))

\* line 125, mutated: the two blend weights exchanged
blend_swapped(price, comp) == Add(Mul(Q(2, 5), price), Mul(Q(3, 5), comp))

\* line 125
blend(price, comp) == Add(Mul(Q(3, 5), price), Mul(Q(2, 5), comp))

\* line 126, mutated: the floor is not applied
apply_floor_dropped(price, floor) == price

\* line 126
apply_floor(price, floor) == PyMax(price, floor)

\* lines 120-126
recommended_price(r) ==
    apply_floor(
        blend(apply_signals(base(r), inventory_signal(r), ads_signal(r), risk_signal(r)),
              competitor_target(r)),
        min_price_allowed(r))

\* line 128
recommended_margin(r) ==
    Div(Sub(recommended_price(r), total_cost(r)), recommended_price(r))

\* lines 133-137, mutated: the low-stock rule is tested before the HIGH rule
risk_level_medium_first(r) ==
    IF ~isna(days_supply(r)) /\ Lt(days_supply(r), R(20)) THEN "MEDIUM"
    ELSE IF Gt(return_risk_load(r), Mul(Q(1, 5), total_cost(r)))
            \/ (~isna(ads_acos(r)) /\ Gt(ads_acos(r), R(40))) THEN "HIGH"
    ELSE "LOW"

\* lines 133-137
risk_level(r) ==
    IF Gt(return_risk_load(r), Mul(Q(1, 5), total_cost(r)))
       \/ (~isna(ads_acos(r)) /\ Gt(ads_acos(r), R(40))) THEN "HIGH"
    ELSE IF ~isna(days_supply(r)) /\ Lt(days_supply(r), R(20)) THEN "MEDIUM"
    ELSE "LOW"

\* the rationale strings (the arrow of the source is written "->")
LowInventory == "Low inventory -> price increased slightly"
HighInventory == "High inventory -> price reduced slightly"
HighAcos == "High ACOS -> price increased to protect margin"
EfficientAds == "Efficient ads -> price optimized for volume"
HighReturns == "High returns -> risk-adjusted pricing"
CompetitorAligned == "Price aligned with competitor market"
Fallback == "Price optimized to reach target margin safely"

\* lines 162-169, mutated: the fallback is appended without the length test
reason_fallback_always(r) ==
    LET r1 == IF Gt(inventory_signal(r), R(0)) THEN <<LowInventory>>
              ELSE IF Lt(inventory_signal(r), R(0)) THEN <<HighInventory>>
              ELSE <<>>
        r2 == IF Gt(ads_signal(r), R(0)) THEN Append(r1, HighAcos)
              ELSE IF Lt(ads_signal(r), R(0)) THEN Append(r1, EfficientAds)
              ELSE r1
        r3 == IF Gt(risk_signal(r), R(0)) THEN Append(r2, HighReturns) ELSE r2
        r4 == IF ~isna(competitor_avg(r)) THEN Append(r3, CompetitorAligned) ELSE r3
    IN  Append(r4, Fallback)

\* lines 162-169
reason(r) ==
    LET r1 == IF Gt(inventory_signal(r), R(0)) THEN <<LowInventory>>
              ELSE IF Lt(inventory_signal(r), R(0)) THEN <<HighInventory>>
              ELSE <<>>
        r2 == IF Gt(ads_signal(r), R(0)) THEN Append(r1, HighAcos)
              ELSE IF Lt(ads_signal(r), R(0)) THEN Append(r1, EfficientAds)
              ELSE r1
        r3 == IF Gt(risk_signal(r), R(0)) THEN Append(r2, HighReturns) ELSE r2
        r4 == IF ~isna(competitor_avg(r)) THEN Append(r3, CompetitorAligned) ELSE r3
    IN  IF Len(r4) = 0 THEN Append(r4, Fallback) ELSE r4

IsZero(x) == x.n = 0 /\ x.d > 0

\* The first line whose division has a zero divisor (0: none). With Python
\* floats that line raises ZeroDivisionError; with numpy float64 scalars it
\* yields inf or NaN and the script goes on.
ZeroDivisionLine(r) ==
    IF IsZero(Add(units90(r), R(1))) THEN 65
    ELSE IF IsZero(Sub(R(1), min_margin(r))) THEN 72
    ELSE IF IsZero(Sub(R(1), target_margin(r))) THEN 73
    ELSE IF IsZero(recommended_price(r)) THEN 128
    ELSE 0

\* What the run shows for row r (lines 44-169)
Result(r) ==
    [total_cost         |-> total_cost(r),
     min_price_allowed  |-> min_price_allowed(r),
     target_price       |-> target_price(r),
     current_margin     |-> current_margin(r),
     inventory_signal   |-> inventory_signal(r),
     ads_signal         |-> ads_signal(r),
     risk_signal        |-> risk_signal(r),
     competitor_target  |-> competitor_target(r),
     recommended_price  |-> recommended_price(r),
     recommended_margin |-> recommended_margin(r),
     risk_level         |-> risk_level(r),
     reason             |-> reason(r)]

Unassigned == [n |-> 0, d |-> -2]

\* A run that raised before the KPI cards shows no recommendation
NoResult ==
    [total_cost         |-> Unassigned,
     min_price_allowed  |-> Unassigned,
     target_price       |-> Unassigned,
     current_margin     |-> Unassigned,
     inventory_signal   |-> Unassigned,
     ads_signal         |-> Unassigned,
     risk_signal        |-> Unassigned,
     competitor_target  |-> Unassigned,
     recommended_price  |-> Unassigned,
     recommended_margin |-> Unassigned,
     risk_level         |-> "",
     reason             |-> <<>>]

\* ------------------------------------------------------------------------
\* Row selection (lines 36-39)
\* ------------------------------------------------------------------------
SKUs == <<"A", "B">>

NoSelection == "None"

\* line 36: df["SKU"].dropna().unique()
Options(d) == {d[i].SKU : i \in 1..Len(d)} \ {NullSKU}

\* line 36: st.selectbox shows index 0 of the sorted options on the first run
DefaultOption(d) ==
    IF Options(d) = {} THEN NoSelection
    ELSE SKUs[CHOOSE k \in 1..Len(SKUs) :
                 /\ SKUs[k] \in Options(d)
                 /\ \A j \in 1..(k - 1) : SKUs[j] \notin Options(d)]

\* line 37: positions of the rows of df[df["SKU"] == sku]
sku_df(d, s) == {i \in 1..Len(d) : d[i].SKU = s}

SetMax(S) == CHOOSE x \in S : \A y \in S : y <= x

\* line 39: positions that sort_values("Date").iloc[-1] can return.
\* sort_values puts rows with a missing Date last (na_position="last"), in
\* frame order; among rows with equal dates the default quicksort is not
\* stable, so any of the rows with the greatest date may come last.
LastRows(d, s) ==
    LET idx   == sku_df(d, s)
        nan   == {i \in idx : isna(d[i].Date)}
        dated == idx \ nan
    IN  IF nan # {} THEN {SetMax(nan)}
        ELSE {i \in dated : \A j \in dated : ~Gt(d[j].Date, d[i].Date)}

\* lines 37-39, mutated: the filtered frame is bound to df itself
df_filtered(d, s) == SelectSeq(d, LAMBDA r : r.SKU = s)

\* lines 37-39: the filter is copied and sort_values returns a new frame,
\* so the cached table is what it was
df_after_run(d, s) == d

\* ------------------------------------------------------------------------
\* Tables the script is run on
\* ------------------------------------------------------------------------
\* one valid row: costs > 0, margins < 100, every signal and the competitor
\* price varied
PriceRows ==
    [SKU : {"A"}, Date : {R(1)},
     Cost : {R(10)}, FBA_Fee : {R(3)},
     Storage_Fee : {R(1)}, Handling_Cost : {R(1)},
     Minimum_Acceptable_Margin_pct : {R(10), R(30)},
     Target_Gross_Margin_pct : {R(25)},
     Current_Price : {R(0), R(18)},
     days_of_supply : {NoColumn, R(15), R(20), R(90), R(91)},
     Avg_Competitor_Price : {NaN, R(1), R(22)},
     units_shipped_t90 : {R(24), R(100)},
     returns_t90 : {R(5), R(30)},
     acosClicks14d : {NaN, R(19), R(20), R(40), R(50)}]

\* one row with zero costs, empty cells, absent columns, margins >= 100
EdgeRows ==
    [SKU : {"A"}, Date : {R(1)},
     Cost : {NoColumn, NaN, R(0), R(10)}, FBA_Fee : {NoColumn, NaN, R(3)},
     Storage_Fee : {NoColumn}, Handling_Cost : {R(0)},
     Minimum_Acceptable_Margin_pct : {NoColumn, R(100), R(150)},
     Target_Gross_Margin_pct : {R(25), R(100)},
     Current_Price : {NoColumn, NaN, R(0), R(18)},
     days_of_supply : {NaN},
     Avg_Competitor_Price : {NoColumn, R(22)},
     units_shipped_t90 : {NoColumn},
     returns_t90 : {NoColumn, R(5)},
     acosClicks14d : {NoColumn}]

TableRowsAll ==
    [SKU : {"A", "B", NullSKU}, Date : {NaN} \cup {R(t) : t \in 1..MaxDate},
     Cost : {R(10)}, FBA_Fee : {R(3)},
     Storage_Fee : {R(1)}, Handling_Cost : {R(1)},
     Minimum_Acceptable_Margin_pct : {NoColumn},
     Target_Gross_Margin_pct : {NoColumn},
     Current_Price : {R(18)},
     days_of_supply : {NaN},
     Avg_Competitor_Price : {NaN},
     units_shipped_t90 : {R(100)},
     returns_t90 : {R(5)},
     acosClicks14d : {NaN, R(50)}]

\* rows of a table with several SKUs and dates; the rows of SKU "A" differ
\* in their ACOS, the rows without a SKU carry the first date
TableRows ==
    {r \in TableRowsAll :
        /\ r.SKU = "A" \/ isna(r.acosClicks14d)
        /\ r.SKU # NullSKU \/ r.Date = R(1)}

RECURSIVE SeqsOf(_, _)
SeqsOf(S, n) ==
    IF n = 0 THEN {<<>>}
    ELSE {Append(t, x) : t \in SeqsOf(S, n - 1), x \in S}

Tables ==
    {<<r>> : r \in PriceRows \cup EdgeRows}
    \cup UNION {SeqsOf(TableRows, n) : n \in 1..MaxRows}

\* ------------------------------------------------------------------------
\* State machine
\* ------------------------------------------------------------------------
NotRun == [status |-> "init", out |-> NoResult]

\* line 23: the table is loaded; nothing has been computed
Init ==
    /\ df \in Tables
    /\ scalars \in {"numpy", "python"}
    /\ sku = NoSelection
    /\ row = 0
    /\ status = "init"
    /\ out = NoResult
    /\ first = [i \in 1..Len(df) |-> NotRun]

\* lines 36-169 for the selection s
RunScript(s) ==
    /\ sku' = s
    /\ df' = df_after_run(df, s)
    /\ UNCHANGED scalars
    /\ IF sku_df(df, s) = {}
       THEN /\ row' = 0
            /\ status' = "IndexError"
            /\ out' = NoResult
            /\ first' = first
       ELSE \E i \in LastRows(df, s) :
              LET raised == scalars = "python" /\ ZeroDivisionLine(df[i]) # 0
                  st     == IF raised THEN "ZeroDivisionError" ELSE "ok"
                  res    == IF raised THEN NoResult ELSE Result(df[i])
              IN  /\ row' = i
                  /\ status' = st
                  /\ out' = res
                  /\ first' = IF first[i] = NotRun
                              THEN [first EXCEPT ![i] = [status |-> st, out |-> res]]
                              ELSE first

\* the first execution of the script
FirstRun ==
    /\ status = "init"
    /\ RunScript(DefaultOption(df))

\* the user picks a SKU: the script is executed again
Rerun ==
    /\ status # "init"
    /\ \E s \in Options(df) : RunScript(s)

Next == FirstRun \/ Rerun

Spec == Init /\ [][Next]_vars

\* ------------------------------------------------------------------------
\* Properties
\* ------------------------------------------------------------------------
\* the run selected a row and went through lines 44-169
Selected == row # 0

IsFinite(x) == x.d > 0

\* a >= b on numbers; False when either is NaN
Ge(a, b) == ~isna(a) /\ ~isna(b) /\ ~Gt(b, a)

\* a missing value (column absent or cell empty) read as 0
orZero(x) == IF x = NoColumn \/ isna(x) THEN R(0) ELSE x

PresentSum(r) ==
    Add(Add(orZero(r.Cost), orZero(r.FBA_Fee)),
        Add(orZero(r.Storage_Fee), orZero(r.Handling_Cost)))

NonNegative(x) == x = NoColumn \/ Ge(x, R(0))

Below100(x) == x = NoColumn \/ Lt(x, R(100))

MinPct(r) == IF r.Minimum_Acceptable_Margin_pct = NoColumn THEN R(10)
             ELSE r.Minimum_Acceptable_Margin_pct

TargetPct(r) == IF r.Target_Gross_Margin_pct = NoColumn THEN R(25)
                ELSE r.Target_Gross_Margin_pct

ValidInputs(r) ==
    /\ NonNegative(r.Cost) /\ NonNegative(r.FBA_Fee)
    /\ NonNegative(r.Storage_Fee) /\ NonNegative(r.Handling_Cost)
    /\ NonNegative(r.Current_Price)
    /\ Below100(r.Minimum_Acceptable_Margin_pct)
    /\ Below100(r.Target_Gross_Margin_pct)

\* total_cost / (1 - pct/100), written as 100 * total_cost / (100 - pct)
FloorOf(r) == Div(Mul(R(100), PresentSum(r)), Sub(R(100), MinPct(r)))

TargetOf(r) == Div(Mul(R(100), PresentSum(r)), Sub(R(100), TargetPct(r)))

\* C1: for valid inputs (costs and current price >= 0, both margins < 100)
\* the recommended price shown is at least
\* min_price_allowed = total_cost / (1 - min_margin), whatever the signals
\* and the competitor price are.
C1_MarginFloor ==
    (status = "ok" /\ ValidInputs(df[row]))
        => /\ out.min_price_allowed = FloorOf(df[row])
           /\ Ge(out.recommended_price, FloorOf(df[row]))

\* C1 witness: the competitor blend was below the floor and the floor was applied
C1_Witness ==
    /\ status = "ok" /\ ValidInputs(df[row])
    /\ ~isna(df[row].Avg_Competitor_Price)
    /\ Lt(out.competitor_target, out.min_price_allowed)
    /\ Lt(blend(apply_signals(base(df[row]), out.inventory_signal, out.ads_signal,
                              out.risk_signal), out.competitor_target),
          out.min_price_allowed)
    /\ out.recommended_price = out.min_price_allowed
    /\ Gt(out.min_price_allowed, R(0))

\* C2: a run on a row whose minimum or target margin percentage is >= 100
\* ends in an error and shows no recommendation (no infinite or negative
\* min_price_allowed, target_price or recommended_price).
C2_MarginRejected ==
    (Selected /\ (Ge(MinPct(df[row]), R(100)) \/ Ge(TargetPct(df[row]), R(100))))
        => (status # "ok" /\ out = NoResult)

\* C3: for total_cost >= 0 and both margins < 100 the run completes with
\* recommended_price > 0, so line 128 never divides by zero.
C3_PositivePrice ==
    (Selected /\ ValidInputs(df[row]))
        => (status = "ok" /\ Gt(out.recommended_price, R(0)))

\* C4: a cost component that is missing (column absent or cell empty) counts
\* as 0: total_cost is the sum of the components that are present, a number.
C4_MissingAddendIsZero ==
    status = "ok"
        => (out.total_cost = PresentSum(df[row]) /\ IsFinite(out.total_cost))

\* C8: current_price = 0 (given as 0 or missing) gives current_margin = 0;
\* current_price > 0 gives (current_price - total_cost) / current_price;
\* current_margin is never NaN.
C8_CurrentMarginGuard ==
    status = "ok"
        => LET cp == orZero(df[row].Current_Price)
           IN  /\ cp = R(0) => out.current_margin = R(0)
               /\ Gt(cp, R(0)) =>
                      out.current_margin = Div(Sub(cp, PresentSum(df[row])), cp)
               /\ ~isna(out.current_margin)

Present(x) == x # NoColumn /\ ~isna(x)

HighReturnLoad(r) == Gt(return_risk_load(r), Mul(Q(1, 5), total_cost(r)))

\* C5: risk_level is HIGH iff return_risk_load > 0.2 * total_cost or ACOS is
\* present and > 40; otherwise MEDIUM iff days_of_supply is present and < 20;
\* otherwise LOW. High ACOS with low stock is HIGH; absent metrics never
\* raise the level.
C5_RiskClassification ==
    status = "ok"
        => LET r    == df[row]
               high == \/ HighReturnLoad(r)
                       \/ (Present(r.acosClicks14d) /\ Gt(r.acosClicks14d, R(40)))
               low_stock == Present(r.days_of_supply) /\ Lt(r.days_of_supply, R(20))
           IN  /\ out.risk_level \in {"HIGH", "MEDIUM", "LOW"}
               /\ out.risk_level = "HIGH" <=> high
               /\ out.risk_level = "MEDIUM" <=> (~high /\ low_stock)
               /\ out.risk_level = "LOW" <=> (~high /\ ~low_stock)

\* C5 witness: high ACOS together with low stock was classified HIGH
C5_Witness ==
    /\ status = "ok"
    /\ Present(df[row].acosClicks14d) /\ Gt(df[row].acosClicks14d, R(40))
    /\ Present(df[row].days_of_supply) /\ Lt(df[row].days_of_supply, R(20))
    /\ ~HighReturnLoad(df[row])
    /\ out.risk_level = "HIGH"

RationaleOrder ==
    <<LowInventory, HighInventory, HighAcos, EfficientAds, HighReturns,
      CompetitorAligned, Fallback>>

Pos(x) == CHOOSE k \in 1..Len(RationaleOrder) : RationaleOrder[k] = x

Has(rs, x) == \E i \in 1..Len(rs) : rs[i] = x

\* C6: the rationale is never empty; its lines come in the order inventory,
\* ads, returns, competitor, each present iff its condition holds; the
\* fallback is present iff the three signals are 0 and the competitor price
\* is absent, and is then the only line.
C6_Rationale ==
    status = "ok"
        => LET rs == out.reason
               nothing == /\ out.inventory_signal = R(0)
                          /\ out.ads_signal = R(0)
                          /\ out.risk_signal = R(0)
                          /\ ~Present(df[row].Avg_Competitor_Price)
           IN  /\ Len(rs) >= 1
               /\ \A i \in 1..Len(rs) : Has(RationaleOrder, rs[i])
               /\ \A i, j \in 1..Len(rs) : i < j => Pos(rs[i]) < Pos(rs[j])
               /\ Has(rs, LowInventory) <=> Gt(out.inventory_signal, R(0))
               /\ Has(rs, HighInventory) <=> Lt(out.inventory_signal, R(0))
               /\ Has(rs, HighAcos) <=> Gt(out.ads_signal, R(0))
               /\ Has(rs, EfficientAds) <=> Lt(out.ads_signal, R(0))
               /\ Has(rs, HighReturns) <=> Gt(out.risk_signal, R(0))
               /\ Has(rs, CompetitorAligned) <=> Present(df[row].Avg_Competitor_Price)
               /\ Has(rs, Fallback) <=> nothing
               /\ Has(rs, Fallback) => Len(rs) = 1

\* C6 witness: all four lines fired, in order, and no fallback
C6_Witness ==
    /\ status = "ok"
    /\ out.reason = <<LowInventory, HighAcos, HighReturns, CompetitorAligned>>

\* the signals as integers s with value s/20
InvOf(r) ==
    IF ~Present(r.days_of_supply) THEN 0
    ELSE IF Lt(r.days_of_supply, R(20)) THEN 1
    ELSE IF Gt(r.days_of_supply, R(90)) THEN -1 ELSE 0

AdsOf(r) ==
    IF ~Present(r.acosClicks14d) THEN 0
    ELSE IF Gt(r.acosClicks14d, R(40)) THEN 1
    ELSE IF Lt(r.acosClicks14d, R(20)) THEN -1 ELSE 0

RiskOf(r) == IF HighReturnLoad(r) THEN 1 ELSE 0

CompetitorTargetOf(r) ==
    IF Present(r.Avg_Competitor_Price)
    THEN Div(Add(Mul(R(7), r.Avg_Competitor_Price), Mul(R(3), orZero(r.Current_Price))),
             R(10))
    ELSE orZero(r.Current_Price)

Greater(a, b) == IF Ge(a, b) THEN a ELSE b

PriceOf(r) ==
    Greater(
        Add(Mul(Q(3 * (20 + InvOf(r)) * (20 + AdsOf(r)) * (20 + RiskOf(r)), 5 * 8000),
                Greater(TargetOf(r), FloorOf(r))),
            Mul(Q(2, 5), CompetitorTargetOf(r))),
        FloorOf(r))

IsExample(r) ==
    /\ r.Cost = R(10) /\ r.FBA_Fee = R(3)
    /\ r.Storage_Fee = R(1) /\ r.Handling_Cost = R(1)
    /\ r.Minimum_Acceptable_Margin_pct = R(10)
    /\ r.Target_Gross_Margin_pct = R(25)
    /\ r.days_of_supply = R(15) /\ r.acosClicks14d = R(50)
    /\ r.units_shipped_t90 = R(100) /\ r.returns_t90 = R(5)
    /\ r.Avg_Competitor_Price = R(22) /\ r.Current_Price = R(18)

Numeric(x) == x = NoColumn \/ ~isna(x)

\* every cost component and the current price is a number (or its column is
\* absent) and neither margin is exactly 100
NumericInputs(r) ==
    /\ Numeric(r.Cost) /\ Numeric(r.FBA_Fee)
    /\ Numeric(r.Storage_Fee) /\ Numeric(r.Handling_Cost)
    /\ Numeric(r.Current_Price)
    /\ MinPct(r) # R(100) /\ TargetPct(r) # R(100)

\* C7: recommended_price = max(0.6 * max(target_price, min_price_allowed)
\* * (1 + inventory) * (1 + ads) * (1 + risk) + 0.4 * competitor_target,
\* min_price_allowed) with the three signals in {-0.05, 0, +0.05} and
\* competitor_target = 0.7 * avg + 0.3 * current_price (current_price when no
\* competitor price); the worked example gives total_cost 15, target_price
\* 20, recommended_price 21.55, HIGH and three rationale lines.
C7_PriceFormula ==
    (status = "ok" /\ NumericInputs(df[row]))
        => /\ out.recommended_price = PriceOf(df[row])
           /\ IsExample(df[row]) =>
                 /\ out.total_cost = R(15)
                 /\ out.target_price = R(20)
                 /\ out.recommended_price = Q(2155, 100)
                 /\ out.risk_level = "HIGH"
                 /\ out.reason = <<LowInventory, HighAcos, CompetitorAligned>>

\* C7 witness: the worked example was computed
C7_Witness ==
    /\ status = "ok" /\ IsExample(df[row])
    /\ out.recommended_price = Q(2155, 100)

C10_LatestDatedRow ==
    Selected
        => LET dated == {i \in sku_df(df, sku) : ~isna(df[i].Date)}
           IN  /\ df[row].SKU = sku
               /\ dated # {} =>
                     /\ row \in dated
                     /\ \A j \in dated : Ge(df[row].Date, df[j].Date)

====
